---- MODULE Spec2Model ----
(***************************************************************************)
(* esp-web-flash-server (src/main.rs): main() runs prepare() once, which   *)
(* reads the ELF and the optional overrides, resolves the flash size,      *)
(* builds the flash image through espflash and keeps the first three       *)
(* segments in a PartsData; main() then spawns the browser-opener thread   *)
(* and launches Rocket, whose handlers read the managed PartsData.         *)
(*                                                                         *)
(* espflash, std::fs and Rocket are not part of the repository: every call *)
(* into them is a nondeterministic choice over the results its signature   *)
(* allows.  Option<T> is a sequence of length 0 or 1; a String is a        *)
(* sequence of one-character strings; a Vec<u8> is a sequence of bytes.    *)
(* main.rs never inspects or changes a byte of a file or of a segment (it  *)
(* moves, clones and measures buffers), so one byte value stands for all   *)
(* and buffers differ by their length.                                     *)
(***************************************************************************)
EXTENDS Integers, Sequences, FiniteSets, TLC

VARIABLES
    pc,             \* position of main()/prepare()
    exitCode,       \* process exit status, NoExit while running
    prepareCalls,   \* number of times prepare() has been entered
    opts,           \* prepare: Option<Args>
    elf,            \* prepare: Option<Vec<u8>>, bytes of the ELF file
    p,              \* prepare: Option<PartitionTable>
    b,              \* prepare: Option<Vec<u8>>, bootloader override
    flash_size,     \* prepare: Option<FlashSize>, the resolved setting
    fw,             \* prepare: Option<FirmwareImage> (local `firmware`)
    builtWith,      \* Option<FlashSize> handed to FirmwareImageBuilder
    segs,           \* data of the first three (at most) segments yielded
    surplus,        \* flash_segments() yielded more than three segments
    data,           \* main: Option<PartsData> returned by prepare()
    managed,        \* Rocket managed state: Option<PartsData>
    listener,       \* the listening socket is open
    everListening,  \* the listening socket was opened at some point
    opener,         \* browser-opener thread: "none", "sleeping", "opened"
    stdout,         \* lines printed with println!
    stderr,         \* lines printed with eprintln! and the final error
    failed,         \* which input made prepare() fail, "none" otherwise
    resp,           \* per connection, the last response sent
    run,            \* how many times the program has been started
    prev            \* what the previous, failed run printed: Option<outcome>

vars == <<pc, exitCode, prepareCalls, opts, elf, p, b, flash_size, fw,
          builtWith, segs, surplus, data, managed, listener, everListening,
          opener, stdout, stderr, failed, resp, run, prev>>

prepareLocals == <<opts, elf, p, b, flash_size, fw>>
serveVars == <<managed, listener, everListening, opener, resp>>

(***************************************************************************)
(* Bounds                                                                  *)
(***************************************************************************)
MaxData == 1        \* longest segment payload the image library returns
MaxSegs == 4        \* longest segment list the image library returns
NumConns == 2       \* concurrent connections
MaxLabelLen == 4    \* longest flash-size string in the exhaustive label check
MaxRuns == 2        \* runs of the process in the re-run specification

Bytes == {0}

SeqsUpTo(S, n) == UNION {[1..k -> S] : k \in 0..n}

SegData == SeqsUpTo(Bytes, MaxData)
SegLists == SeqsUpTo(SegData, MaxSegs)
FileBytes == {<<0>>, <<0, 0>>}
Conns == 1..NumConns

NoExit == -1

(***************************************************************************)
(* Command line (struct Args)                                              *)
(***************************************************************************)
Chip == {"Esp32", "Esp32c3", "Esp32s2", "Esp32s3", "Esp8266"}

LabelChars == {"1", "2", "4", "6", "7", "8", "M", "m", "B", "b"}

\* flash-size strings tried on the command line in the full process model
ArgLabels == { <<"1", "6", "m", "b">>, <<"7", "M", "B">> }

\* every flash-size string up to MaxLabelLen characters
AllLabels == SeqsUpTo(LabelChars, MaxLabelLen)

Args(chip, hasBootloader, hasPartitionTable, label) ==
    [chip |-> chip, bootloader |-> hasBootloader,
     partition_table |-> hasPartitionTable, flash_size |-> label]

(***************************************************************************)
(* prepare(): flash-size resolution (main.rs 519-528)                      *)
(***************************************************************************)
\* char::to_uppercase on the characters a flash-size string is built from
UpperChar(c) == CASE c = "m" -> "M" [] c = "b" -> "B" [] OTHER -> c

\* str::to_uppercase
to_uppercase(s) == [i \in 1..Len(s) |-> UpperChar(s[i])]

FlashSize == {"Flash2Mb", "Flash4Mb", "Flash8Mb", "Flash16Mb"}

\* a case-sensitive match, as the code would be without to_uppercase()
MatchFlashSize_caseSensitive(s) ==
    CASE s = <<"2", "M", "B">> -> [size |-> "Flash2Mb", warn |-> FALSE]
      [] s = <<"4", "M", "B">> -> [size |-> "Flash4Mb", warn |-> FALSE]
      [] s = <<"8", "M", "B">> -> [size |-> "Flash8Mb", warn |-> FALSE]
      [] s = <<"1", "6", "M", "B">> -> [size |-> "Flash16Mb", warn |-> FALSE]
      [] OTHER -> [size |-> "Flash4Mb", warn |-> TRUE]

\* match opts.flash_size.to_uppercase().as_str() { ... }
MatchFlashSize(s) ==
    LET u == to_uppercase(s) IN
    CASE u = <<"2", "M", "B">> -> [size |-> "Flash2Mb", warn |-> FALSE]
      [] u = <<"4", "M", "B">> -> [size |-> "Flash4Mb", warn |-> FALSE]
      [] u = <<"8", "M", "B">> -> [size |-> "Flash8Mb", warn |-> FALSE]
      [] u = <<"1", "6", "M", "B">> -> [size |-> "Flash16Mb", warn |-> FALSE]
      [] OTHER -> [size |-> "Flash4Mb", warn |-> TRUE]

(***************************************************************************)
(* prepare(): chip name and PartsData (main.rs 534-576)                    *)
(***************************************************************************)
chip_name(chip) ==
    CASE chip = "Esp32" -> "ESP32"
      [] chip = "Esp32c3" -> "ESP32-C3"
      [] chip = "Esp32s2" -> "ESP32-S2"
      [] chip = "Esp32s3" -> "ESP32-S3"
      [] chip = "Esp8266" -> "ESP8266"

\* a total that leaves the partition table out
TotalSize_noPartitions(bootloader_size, partitions_size, firmware_size) ==
    bootloader_size + firmware_size

\* let total_size = bootloader_size + partitions_size + firmware_size;
TotalSize(bootloader_size, partitions_size, firmware_size) ==
    bootloader_size + partitions_size + firmware_size

\* parts[0], parts[1], parts[2] of the collected segments and their sizes;
\* applied only where parts has at least three elements
PartsData(name, parts, label) ==
    LET bootloader_data == parts[1]
        partitions_data == parts[2]
        firmware_data == parts[3]
    IN  [chip |-> name,
         bootloader |-> bootloader_data,
         partitions |-> partitions_data,
         firmware |-> firmware_data,
         total_size |-> TotalSize(Len(bootloader_data), Len(partitions_data),
                                  Len(firmware_data)),
         bootloader_size |-> Len(bootloader_data),
         partitions_size |-> Len(partitions_data),
         firmware_size |-> Len(firmware_data),
         flash_size |-> label]

(***************************************************************************)
(* Handlers (main.rs 35-70, 72-74, 403-483)                                *)
(***************************************************************************)
Endpoints == {"/", "/manifest.json", "/bootloader.bin", "/partitions.bin",
              "/firmware.bin", "/info"}

bootloader(d) == d.bootloader
partitions(d) == d.partitions
firmware(d) == d.firmware

info(d) == [chip |-> d.chip,
            total_size |-> d.total_size,
            bootloader_size |-> d.bootloader_size,
            partitions_size |-> d.partitions_size,
            firmware_size |-> d.firmware_size,
            flash_size |-> d.flash_size]

index == <<"static page">>

Parts(bootloaderOffset) ==
    << [path |-> "bootloader.bin", offset |-> bootloaderOffset],
       [path |-> "partitions.bin", offset |-> 32768],
       [path |-> "firmware.bin", offset |-> 65536] >>

manifest ==
    [name |-> "ESP Application",
     new_install_prompt_erase |-> TRUE,
     builds |-> << [chipFamily |-> "ESP32", parts |-> Parts(4096)],
                   [chipFamily |-> "ESP32-C3", parts |-> Parts(0)],
                   [chipFamily |-> "ESP32-S2", parts |-> Parts(4096)],
                   [chipFamily |-> "ESP32-S3", parts |-> Parts(0)] >>]

\* the body a route answers with, given the managed PartsData
Handler(ep, d) ==
    CASE ep = "/" -> index
      [] ep = "/manifest.json" -> manifest
      [] ep = "/bootloader.bin" -> bootloader(d)
      [] ep = "/partitions.bin" -> partitions(d)
      [] ep = "/firmware.bin" -> firmware(d)
      [] ep = "/info" -> info(d)

\* a handler that moves the buffer out of the shared state instead of cloning
AfterRequest_take(ep, d) ==
    CASE ep = "/bootloader.bin" -> [d EXCEPT !.bootloader = <<>>]
      [] ep = "/partitions.bin" -> [d EXCEPT !.partitions = <<>>]
      [] ep = "/firmware.bin" -> [d EXCEPT !.firmware = <<>>]
      [] OTHER -> d

\* the managed PartsData after a handler ran: handlers take &State<PartsData>
\* and clone what they return
AfterRequest(ep, d) == d

NoResponse == [ep |-> "none", body |-> <<>>]

(***************************************************************************)
(* Errors.  An std::io::Error displays the operating system's message only *)
(* ("No such file or directory (os error 2)"); `?` adds no context to it.  *)
(* An espflash error displays what the failing library call reports.       *)
(***************************************************************************)
IoErrorKinds == {"NotFound", "PermissionDenied"}
IoError(kind) == [source |-> "std::io::Error", message |-> kind]
LibError(call) == [source |-> "espflash", message |-> call]

\* main() that calls prepare() again after it failed
OnPrepareErr_retry == [pc |-> "main", exitCode |-> NoExit]

\* main() that carries on after a failed prepare()
OnPrepareErr_ignored == [pc |-> "prepared", exitCode |-> NoExit]

\* let data = prepare()?;  main returns the Err: exit status 1
OnPrepareErr == [pc |-> "exited", exitCode |-> 1]

PanicExitCode == 101

(***************************************************************************)
(* Initial state: the process has been started, main() is about to call    *)
(* prepare().                                                              *)
(***************************************************************************)
Init ==
    /\ pc = "main"
    /\ exitCode = NoExit
    /\ prepareCalls = 0
    /\ opts = <<>> /\ elf = <<>> /\ p = <<>> /\ b = <<>>
    /\ flash_size = <<>> /\ fw = <<>>
    /\ builtWith = <<>>
    /\ surplus = FALSE
    /\ segs = <<>>
    /\ data = <<>>
    /\ managed = <<>>
    /\ listener = FALSE
    /\ everListening = FALSE
    /\ opener = "none"
    /\ stdout = <<>>
    /\ stderr = <<>>
    /\ failed = "none"
    /\ resp = [c \in Conns |-> NoResponse]
    /\ run = 1
    /\ prev = <<>>

DropLocals ==
    /\ opts' = <<>> /\ elf' = <<>> /\ p' = <<>> /\ b' = <<>>
    /\ flash_size' = <<>> /\ fw' = <<>>

\* `?` inside prepare(): the error goes up through main()
Fail(input, err) ==
    /\ pc' = OnPrepareErr.pc
    /\ exitCode' = OnPrepareErr.exitCode
    /\ stderr' = Append(stderr, <<"Error", err>>)
    /\ failed' = input
    /\ DropLocals
    /\ UNCHANGED <<prepareCalls, builtWith, segs, surplus, data, serveVars,
                   stdout, run, prev>>

(***************************************************************************)
(* prepare() (main.rs 497-577), one action per fallible statement          *)
(***************************************************************************)
\* main.rs 580 and 498: main calls prepare(), which parses the command line
ParseArgs ==
    /\ pc = "main"
    /\ \E chip \in Chip, hasB \in BOOLEAN, hasP \in BOOLEAN, label \in ArgLabels :
          opts' = << Args(chip, hasB, hasP, label) >>
    /\ prepareCalls' = prepareCalls + 1
    /\ pc' = "metadata"
    /\ UNCHANGED <<exitCode, elf, p, b, flash_size, fw, builtWith, segs, surplus,
                   data, serveVars, stdout, stderr, failed, run, prev>>

\* main.rs 501-503
Metadata ==
    /\ pc = "metadata"
    /\ \/ \E k \in IoErrorKinds : Fail("elf", IoError(k))
       \/ /\ stdout' = stdout \o << <<"ELF file">>, <<"  Size">> >>
          /\ pc' = "read_elf"
          /\ UNCHANGED <<exitCode, prepareCalls, prepareLocals, builtWith,
                         segs, surplus, data, serveVars, stderr, failed, run,
                         prev>>

\* main.rs 505
ReadElf ==
    /\ pc = "read_elf"
    /\ \/ \E k \in IoErrorKinds : Fail("elf", IoError(k))
       \/ /\ \E bytes \in FileBytes : elf' = <<bytes>>
          /\ pc' = "partition_table"
          /\ UNCHANGED <<exitCode, prepareCalls, opts, p, b, flash_size, fw,
                         builtWith, segs, surplus, data, serveVars, stdout,
                         stderr, failed, run, prev>>

\* main.rs 507-511
ReadPartitionTable ==
    /\ pc = "partition_table"
    /\ \/ /\ opts[1].partition_table
          /\ \/ \E k \in IoErrorKinds : Fail("partition_table", IoError(k))
             \/ Fail("partition_table", LibError("PartitionTable::try_from_bytes"))
       \/ /\ IF opts[1].partition_table
                THEN \E bytes \in FileBytes : p' = << [table |-> bytes] >>
                ELSE p' = <<>>
          /\ pc' = "bootloader"
          /\ UNCHANGED <<exitCode, prepareCalls, opts, elf, b, flash_size, fw,
                         builtWith, segs, surplus, data, serveVars, stdout,
                         stderr, failed, run, prev>>

\* main.rs 513-517
ReadBootloader ==
    /\ pc = "bootloader"
    /\ \/ /\ opts[1].bootloader
          /\ \E k \in IoErrorKinds : Fail("bootloader", IoError(k))
       \/ /\ IF opts[1].bootloader
                THEN \E bytes \in FileBytes : b' = <<bytes>>
                ELSE b' = <<>>
          /\ pc' = "flash_size"
          /\ UNCHANGED <<exitCode, prepareCalls, opts, elf, p, flash_size, fw,
                         builtWith, segs, surplus, data, serveVars, stdout,
                         stderr, failed, run, prev>>

\* main.rs 519-528
ResolveFlashSize ==
    /\ pc = "flash_size"
    /\ LET m == MatchFlashSize(opts[1].flash_size) IN
          /\ flash_size' = << m.size >>
          /\ stderr' = IF m.warn
                          THEN Append(stderr, <<"Warning: Unknown flash size",
                                                opts[1].flash_size>>)
                          ELSE stderr
    /\ pc' = "build"
    /\ UNCHANGED <<exitCode, prepareCalls, opts, elf, p, b, fw, builtWith,
                   segs, surplus, data, serveVars, stdout, failed, run, prev>>

\* main.rs 530-532
Build ==
    /\ pc = "build"
    /\ \/ Fail("elf", LibError("FirmwareImageBuilder::build"))
       \/ /\ fw' = << [elf |-> elf[1], flash_size |-> flash_size] >>
          /\ builtWith' = flash_size
          /\ pc' = "get_flash_image"
          /\ UNCHANGED <<exitCode, prepareCalls, opts, elf, p, b, flash_size,
                         segs, surplus, data, serveVars, stdout, stderr, failed,
                         run, prev>>

Min(x, y) == IF x < y THEN x ELSE y

\* main.rs 534-577: get_flash_image fails, or yields the segments `parts`;
\* parts[2] panics when there are fewer than three of them
GetFlashImage ==
    /\ pc = "get_flash_image"
    /\ \/ Fail("image", LibError("Chip::get_flash_image"))
       \/ \E parts \in SegLists :
             /\ surplus' = (Len(parts) > 3)
             /\ segs' = SubSeq(parts, 1, Min(3, Len(parts)))
             /\ IF Len(parts) < 3
                   THEN /\ pc' = "exited"
                        /\ exitCode' = PanicExitCode
                        /\ stderr' = Append(stderr, <<"panicked", "index out of bounds">>)
                        /\ failed' = "segments"
                        /\ UNCHANGED <<data, stdout>>
                   ELSE /\ data' = << PartsData(chip_name(opts[1].chip), parts,
                                                opts[1].flash_size) >>
                        /\ stdout' = stdout \o
                              << <<"Firmware prepared:">>,
                                 <<"  Chip", chip_name(opts[1].chip)>>,
                                 <<"  Flash size", opts[1].flash_size>>,
                                 <<"  Bootloader", Len(parts[1])>>,
                                 <<"  Partitions", Len(parts[2])>>,
                                 <<"  Firmware", Len(parts[3])>>,
                                 <<"  Total", data'[1].total_size>> >>
                        /\ pc' = "prepared"
                        /\ UNCHANGED <<exitCode, stderr, failed>>
             /\ DropLocals
             /\ UNCHANGED <<prepareCalls, builtWith, serveVars, run, prev>>

(***************************************************************************)
(* main() after prepare() (main.rs 582-603)                                *)
(***************************************************************************)
\* main.rs 582-589
SpawnOpener ==
    /\ pc = "prepared"
    /\ stdout' = stdout \o << <<"Starting web server...">>,
                              <<"Server will be available at">>,
                              <<"Opening browser automatically">> >>
    /\ opener' = "sleeping"
    /\ pc' = "launch"
    /\ UNCHANGED <<exitCode, prepareCalls, prepareLocals, builtWith, segs,
                   surplus, data, managed, listener, everListening, stderr,
                   failed, resp, run, prev>>

\* main.rs 591-601: manage(data) and launch(); a launch error panics in
\* expect("Problem launching server")
Launch ==
    /\ pc = "launch"
    /\ \/ /\ managed' = data
          /\ listener' = TRUE
          /\ everListening' = TRUE
          /\ pc' = "serving"
          /\ UNCHANGED <<exitCode, stderr>>
       \/ /\ pc' = "exited"
          /\ exitCode' = PanicExitCode
          /\ stderr' = Append(stderr, <<"panicked", "Problem launching server">>)
          /\ UNCHANGED <<managed, listener, everListening>>
    /\ UNCHANGED <<prepareCalls, prepareLocals, builtWith, segs, surplus, data,
                   opener, stdout, failed, resp, run, prev>>

\* main.rs 586-589: the spawned thread, after its sleep
OpenBrowser ==
    /\ opener = "sleeping"
    /\ pc # "exited"
    /\ opener' = "opened"
    /\ UNCHANGED <<pc, exitCode, prepareCalls, prepareLocals, builtWith, segs,
                   surplus, data, managed, listener, everListening, stdout,
                   stderr, failed, resp, run, prev>>

\* main.rs 35-70, 72-74, 403-483: one request on connection c
Request(c, ep) ==
    /\ pc = "serving"
    /\ listener
    /\ resp' = [resp EXCEPT ![c] = [ep |-> ep, body |-> Handler(ep, managed[1])]]
    /\ managed' = << AfterRequest(ep, managed[1]) >>
    /\ UNCHANGED <<pc, exitCode, prepareCalls, prepareLocals, builtWith, segs,
                   surplus, data, listener, everListening, opener, stdout, stderr,
                   failed, run, prev>>

\* main.rs 598-603: launch() returns on shutdown, main returns Ok(()); the
\* connections are closed and the managed state is dropped with the server
Shutdown ==
    /\ pc = "serving"
    /\ pc' = "exited"
    /\ exitCode' = 0
    /\ listener' = FALSE
    /\ managed' = <<>>
    /\ resp' = [c \in Conns |-> NoResponse]
    /\ UNCHANGED <<prepareCalls, prepareLocals, builtWith, segs, surplus, data,
                   everListening, opener, stdout, stderr, failed, run, prev>>

Prepare ==
    \/ ParseArgs
    \/ Metadata
    \/ ReadElf
    \/ ReadPartitionTable
    \/ ReadBootloader
    \/ ResolveFlashSize
    \/ Build
    \/ GetFlashImage

Next ==
    \/ Prepare
    \/ SpawnOpener
    \/ Launch
    \/ OpenBrowser
    \/ \E c \in Conns, ep \in Endpoints : Request(c, ep)
    \/ Shutdown

Spec == Init /\ [][Next]_vars

(***************************************************************************)
(* Flash-size resolution on its own: prepare() stands at the match of      *)
(* main.rs 519 with an arbitrary --flash-size string.                      *)
(***************************************************************************)
InitFlash ==
    /\ pc = "flash_size"
    /\ exitCode = NoExit
    /\ prepareCalls = 1
    /\ \E label \in AllLabels : opts = << Args("Esp32", FALSE, FALSE, label) >>
    /\ elf = << <<0>> >> /\ p = <<>> /\ b = <<>>
    /\ flash_size = <<>> /\ fw = <<>>
    /\ builtWith = <<>>
    /\ surplus = FALSE
    /\ segs = <<>>
    /\ data = <<>>
    /\ managed = <<>>
    /\ listener = FALSE
    /\ everListening = FALSE
    /\ opener = "none"
    /\ stdout = << <<"ELF file">>, <<"  Size">> >>
    /\ stderr = <<>>
    /\ failed = "none"
    /\ resp = [c \in Conns |-> NoResponse]
    /\ run = 1
    /\ prev = <<>>

NextFlash == ResolveFlashSize

SpecFlash == InitFlash /\ [][NextFlash]_vars

(***************************************************************************)
(* The program started again after a run whose prepare() failed; what the  *)
(* failed run printed stays on the terminal.                               *)
(***************************************************************************)
Rerun ==
    /\ pc = "exited"
    /\ failed # "none"
    /\ run < MaxRuns
    /\ prev' = << [failed |-> failed, stdout |-> stdout, stderr |-> stderr,
                   exitCode |-> exitCode] >>
    /\ run' = run + 1
    /\ pc' = "main"
    /\ exitCode' = NoExit
    /\ prepareCalls' = 0
    /\ DropLocals
    /\ builtWith' = <<>>
    /\ surplus' = FALSE
    /\ segs' = <<>>
    /\ stdout' = <<>>
    /\ stderr' = <<>>
    /\ failed' = "none"
    /\ UNCHANGED <<data, serveVars>>

NextRerun ==
    \/ Prepare
    \/ Rerun

SpecRerun == Init /\ [][NextRerun]_vars

(***************************************************************************)
(* Properties                                                              *)
(***************************************************************************)
PrepareFailed == failed # "none"

\* C1: when prepare() fails the process has ended with a non-zero status, no
\* listening socket is or ever was open in that run, nothing is managed by
\* the server, and the browser-opener thread was never started.
C1_NoListenerAfterFailedPrepare ==
    PrepareFailed =>
        /\ pc = "exited"
        /\ exitCode \notin {NoExit, 0}
        /\ ~listener
        /\ ~everListening
        /\ managed = <<>>
        /\ opener = "none"

C1_Witness_OverrideUnreadable ==
    /\ failed = "partition_table"
    /\ pc = "exited"
    /\ exitCode = 1

\* C2: /info reports total_size = bootloader_size + partitions_size +
\* firmware_size, and each reported size is the length of the body the
\* corresponding endpoint returns, for the managed state and for every
\* pair of responses sent so far.
C2_InfoSizesMatchBodies ==
    /\ managed # <<>> =>
          LET i == Handler("/info", managed[1]) IN
          /\ i.total_size = i.bootloader_size + i.partitions_size + i.firmware_size
          /\ i.bootloader_size = Len(Handler("/bootloader.bin", managed[1]))
          /\ i.partitions_size = Len(Handler("/partitions.bin", managed[1]))
          /\ i.firmware_size = Len(Handler("/firmware.bin", managed[1]))
    /\ \A c \in Conns : resp[c].ep = "/info" =>
          /\ resp[c].body.total_size =
                resp[c].body.bootloader_size + resp[c].body.partitions_size
                + resp[c].body.firmware_size
          /\ \A c2 \in Conns :
                /\ resp[c2].ep = "/bootloader.bin" =>
                      resp[c].body.bootloader_size = Len(resp[c2].body)
                /\ resp[c2].ep = "/partitions.bin" =>
                      resp[c].body.partitions_size = Len(resp[c2].body)
                /\ resp[c2].ep = "/firmware.bin" =>
                      resp[c].body.firmware_size = Len(resp[c2].body)

C2_Witness_InfoAndPartitionsServed ==
    \E c, c2 \in Conns :
        /\ resp[c].ep = "/info"
        /\ resp[c2].ep = "/partitions.bin"
        /\ Len(resp[c2].body) > 0
        /\ resp[c].body.total_size > resp[c].body.partitions_size

\* flash_segments() has been collected
SegmentsReturned == data # <<>> \/ failed = "segments"

ThreeNonEmpty ==
    /\ Len(segs) = 3
    /\ ~surplus
    /\ \A i \in 1..3 : Len(segs[i]) > 0

\* C3: a PartsData exists only when the image library returned exactly three
\* segments, all non-empty, and then it holds them in the order bootloader,
\* partition table, application; any other segment list leaves no PartsData
\* constructed or served.
C3_ExactlyThreeNonEmptySegments ==
    /\ data # <<>> =>
          /\ ThreeNonEmpty
          /\ data[1].bootloader = segs[1]
          /\ data[1].partitions = segs[2]
          /\ data[1].firmware = segs[3]
    /\ (SegmentsReturned /\ ~ThreeNonEmpty) => (data = <<>> /\ managed = <<>>)

ExpectedParts(chipFamily) ==
    << [path |-> "bootloader.bin",
        offset |-> CASE chipFamily = "ESP32" -> 4096
                     [] chipFamily = "ESP32-C3" -> 0
                     [] OTHER -> 0],
       [path |-> "partitions.bin", offset |-> 32768],
       [path |-> "firmware.bin", offset |-> 65536] >>

\* C4: the /manifest.json body has exactly one builds entry for every chip
\* the session can be started with (the chip names prepare() maps the Chip
\* variants to) and no others; every entry has the three parts
\* bootloader.bin, partitions.bin, firmware.bin in that order, partition
\* table at 32768, application at 65536, and the bootloader at 4096 for
\* ESP32 and 0 for ESP32-C3.
C4_ManifestCoversEveryChip ==
    \A c \in Conns : resp[c].ep = "/manifest.json" =>
        LET builds == resp[c].body.builds IN
        /\ \A chip \in Chip :
              Cardinality({k \in 1..Len(builds) :
                              builds[k].chipFamily = chip_name(chip)}) = 1
        /\ \A k \in 1..Len(builds) :
              /\ \E chip \in Chip : builds[k].chipFamily = chip_name(chip)
              /\ Len(builds[k].parts) = 3
              /\ \A j \in 1..3 :
                    /\ builds[k].parts[j].path = ExpectedParts(builds[k].chipFamily)[j].path
                    /\ j > 1 => builds[k].parts[j].offset =
                                   ExpectedParts(builds[k].chipFamily)[j].offset
              /\ builds[k].chipFamily \in {"ESP32", "ESP32-C3"} =>
                    builds[k].parts[1].offset =
                       ExpectedParts(builds[k].chipFamily)[1].offset

LowerChar(c) == CASE c = "M" -> "m" [] c = "B" -> "b" [] OTHER -> c

EqIgnoreCase(s, t) ==
    /\ Len(s) = Len(t)
    /\ \A i \in 1..Len(s) : LowerChar(s[i]) = LowerChar(t[i])

LabelOf(f) ==
    CASE f = "Flash2Mb" -> <<"2", "M", "B">>
      [] f = "Flash4Mb" -> <<"4", "M", "B">>
      [] f = "Flash8Mb" -> <<"8", "M", "B">>
      [] f = "Flash16Mb" -> <<"1", "6", "M", "B">>

\* the capacities a string names when letter case is ignored
NamedBy(label) == {f \in FlashSize : EqIgnoreCase(label, LabelOf(f))}

WarnedAbout(label) ==
    \E k \in 1..Len(stderr) : stderr[k] = <<"Warning: Unknown flash size", label>>

\* C5: once the flash size is resolved, a label that is 2MB, 4MB, 8MB or 16MB
\* up to letter case has given that capacity without a warning, every other
\* string has given Flash4Mb with a warning naming it, and the build has not
\* failed.
C5_FlashSizeResolutionLenient ==
    (opts # <<>> /\ flash_size # <<>>) =>
        LET label == opts[1].flash_size IN
        /\ IF NamedBy(label) # {}
              THEN flash_size[1] \in NamedBy(label) /\ ~WarnedAbout(label)
              ELSE flash_size[1] = "Flash4Mb" /\ WarnedAbout(label)
        /\ pc # "exited"
        /\ exitCode = NoExit
        /\ failed = "none"

C5_Witness_UnknownLabelDefaults ==
    /\ opts # <<>>
    /\ opts[1].flash_size = <<"7", "M", "B">>
    /\ flash_size = <<"Flash4Mb">>
    /\ WarnedAbout(<<"7", "M", "B">>)
    /\ pc = "build"

\* C6: the flash_size kept in PartsData and reported by /info names the
\* capacity the image was built with: the label, letter case ignored, is
\* the label of the FlashSize handed to the image builder.
C6_InfoReportsResolvedFlashSize ==
    /\ data # <<>> => NamedBy(data[1].flash_size) = {builtWith[1]}
    /\ \A c \in Conns : resp[c].ep = "/info" =>
          NamedBy(resp[c].body.flash_size) = {builtWith[1]}

\* C8: while serving, the managed state is the PartsData prepare() returned,
\* every response sent is what its route yields from that PartsData, and two
\* responses of the same route are equal.
C8_ResponsesFromOneSessionState ==
    /\ managed # <<>> => managed = data
    /\ \A c \in Conns : resp[c].ep # "none" =>
          /\ data # <<>>
          /\ resp[c].body = Handler(resp[c].ep, data[1])
          /\ \A c2 \in Conns :
                resp[c2].ep = resp[c].ep => resp[c2].body = resp[c].body

C8_Witness_SameRouteTwice ==
    /\ resp[1].ep = "/bootloader.bin"
    /\ resp[2].ep = "/bootloader.bin"
    /\ Len(resp[1].body) > 0
    /\ managed # <<>>

InputFiles == {"elf", "bootloader", "partition_table"}

\* C9: what a failed run prints tells which input failed: two runs that
\* failed on different input files did not end with the same output and
\* exit status.
C9_DiagnosticIdentifiesInput ==
    (/\ prev # <<>>
     /\ failed \in InputFiles
     /\ prev[1].failed \in InputFiles
     /\ prev[1].failed # failed)
    => <<stdout, stderr, exitCode>> #
          <<prev[1].stdout, prev[1].stderr, prev[1].exitCode>>

PreparePcs == {"metadata", "read_elf", "partition_table", "bootloader",
               "flash_size", "build", "get_flash_image"}

\* C11: prepare() is entered at most once in a run; it has been entered
\* exactly once as soon as main() has left its first statement; and whenever
\* the opener thread exists, the listener is or was open, a PartsData is
\* managed or a response has been sent, prepare() has been entered exactly
\* once, has returned its PartsData and is not running: nothing that
\* happens while serving starts it again.
C11_PrepareRunsOnceBeforeServing ==
    /\ prepareCalls \in {0, 1}
    /\ (prepareCalls = 0) <=> (pc = "main")
    /\ (\/ opener # "none"
        \/ listener
        \/ everListening
        \/ managed # <<>>
        \/ \E c \in Conns : resp[c].ep # "none")
       => /\ prepareCalls = 1
          /\ data # <<>>
          /\ pc \notin PreparePcs \cup {"main", "prepared"}

C11_Witness_ServedAfterOnePrepare ==
    /\ pc = "serving"
    /\ listener
    /\ opener = "opened"
    /\ \A c \in Conns : resp[c].ep # "none"
    /\ prepareCalls = 1

====
